---- MODULE Spec2Model ----
(***************************************************************************)
(* Sprint & time-log engine of klizo-task-management                       *)
(* (src/src/routes/sprint.js, src/src/models/Sprint.js) together with the  *)
(* issue routes that write Issue.status (src/unnamed/part_003).            *)
(*                                                                         *)
(* The database is two collections, `sprints` and `issues`, keyed by id.   *)
(* Every route handler is one action (the whole handler, run without       *)
(* another request in between); the handlers of time-log start, time-log   *)
(* stop and end-sprint are modelled a second time as step machines, one    *)
(* step per awaited database call, for the interleaving claims.            *)
(***************************************************************************)
EXTENDS Integers, Sequences, FiniteSets, TLC

\* ------------------------------------------------------------------ bounds
MaxTime == 1      \* the clock runs 0..MaxTime
MaxLogs == 2      \* at most MaxLogs time logs are embedded in one sprint

\* ids a request may carry; "s0" and "i0" are well-formed ids of no document
SprintIds   == {"s1", "s2", "s0"}
IssueIds    == {"i1", "i2", "i0"}
AssigneeIds == {"a1", "a2"}
ProjectIds  == {"p1", "p2", "p0"}    \* "p0" is a well-formed id of no document
Slots       == {"r1", "r2"}      \* requests that may be in flight together
SprintNames == {"n1", "n2"}      \* names a create-sprint request may carry
CreatedIds  == <<"c1", "c2", "c3">>   \* the _id of the 1st, 2nd, 3rd sprint created
Zones       == {-1, 0, 1}        \* offsets from UTC the server may run in
IssueTitles == {"t1", "t2"}      \* titles a create-issue request may carry
CreatedIssueIds   == <<"j1", "j2">>   \* the _id of the 1st, 2nd issue created
CreatedProjectIds == <<"p1", "p2">>   \* the _id of the 1st, 2nd project created

\* project names, as their characters
ProjectNames == {<<"a", "p", "p", "s">>, <<"a", "p", "i">>, <<"w", "e">>}

\* ISO 8601 texts a create-sprint request may carry, by their form: "date" is a
\* date without time, "local" a date and time without offset, "utc" a date and
\* time ending in Z; wall is the date and time the text names.  A day is
\* DayLength long, so a date without time names a multiple of it.
DayLength  == 2
DateInputs ==
    {[form |-> "date", wall |-> DayLength],
     [form |-> "local", wall |-> 1], [form |-> "local", wall |-> DayLength],
     [form |-> "utc", wall |-> 1]}

NoTime == -1      \* endTime not set (undefined in the document)
None   == "-"     \* a request field that the route does not take

\* ------------------------------------------------------------ HTTP status
OK          == 200
CREATED     == 201
BAD_REQUEST == 400
NOT_FOUND   == 404
CONFLICT    == 409
SERVER_ERROR == 500

SprintStatuses == {"planned", "active", "completed"}
IssueStatuses  == {"backlog", "to_do", "in_progress", "in_review", "in_testing", "done"}

VARIABLES
    sprints,   \* Sprint collection: id -> [status, issues, timeLogs, v]
    issues,    \* Issue collection: id -> [status, assigneeId, isDeleted, timeSpent]
    now,       \* the server clock (new Date())
    resp,      \* the response of the last completed request
    reqs,      \* the requests in flight (step machines), slot -> record
    projects,  \* Project collection: id -> [isDeleted], with name where it matters
    zone       \* the server's offset from UTC (local time = UTC + zone)

vars == <<sprints, issues, now, resp, reqs, projects, zone>>

\* ----------------------------------------------------------------- models
\* new Sprint({...}): status defaults to planned, both arrays empty, __v 0
NewSprint == [status |-> "planned", issues |-> <<>>, timeLogs |-> <<>>, v |-> 0]

\* new Issue({... assigneeId ...}): status defaults to backlog, isDeleted false,
\* timeSpent 0; sprintId has no default and the creation request does not set it
NewIssue(assigneeId) ==
    [status |-> "backlog", assigneeId |-> assigneeId, isDeleted |-> FALSE,
     timeSpent |-> 0, sprintId |-> None]

\* new Project({...}): isDeleted defaults to false
NewProject == [isDeleted |-> FALSE]

\* new Project({name, ...})
CreatedProject(name) == NewProject @@ [name |-> name]

\* a timeLogs element; timeSpent defaults to 0, endTime is optional
TimeLog(assigneeId, issueId, startTime, endTime, timeSpent) ==
    [assigneeId |-> assigneeId, issueId |-> issueId, startTime |-> startTime,
     endTime |-> endTime, timeSpent |-> timeSpent]

Range(seq) == {seq[k] : k \in 1..Len(seq)}

\* -------------------------------------------------------------- responses
\* res.status(code).json({success: false, message})
Reply(code, message) == [code |-> code, message |-> message]

\* setSuccessResponse(res, statusCode, success, data, message): answers with
\* the status it is given and the message in its last position
setSuccessResponse(statusCode, success, message) == Reply(statusCode, message)

\* what the client of the last completed request saw
Response(op, r) == [op |-> op, code |-> r.code, message |-> r.message]

NoResponse == Response(None, Reply(0, None))

\* res.status(code).json({success: true, data})
DataResponse(op, r, data) ==
    [op |-> op, code |-> r.code, message |-> r.message, data |-> data]

\* a request slot: the handler's position, its inputs, the sprint document it
\* loaded (doc), the array position and value it works on, and its answer
Request(pc, op, sprintId, issueId, assigneeId, doc, k, log, res) ==
    [pc |-> pc, op |-> op, sprintId |-> sprintId, issueId |-> issueId,
     assigneeId |-> assigneeId, doc |-> doc, k |-> k, log |-> log, res |-> res]

Idle == Request("idle", None, None, None, None, None, 0, None, Reply(0, None))

\* --------------------------------------------------------------- lookups
\* Sprint.findById(sprintId) found a document
SprintFound(sprintId) == sprintId \in DOMAIN sprints

\* Issue.findById(issueId) found a document
IssueFound(issueId) == issueId \in DOMAIN issues

\* !issue || issue.isDeleted is false
IssueLive(issueId) == IssueFound(issueId) /\ ~issues[issueId].isDeleted

\* !log.endTime
NoEndTime(log) == log.endTime = NoTime

\* faulty variant of FindActiveLog: the position of the last such log
FindActiveLogLast(timeLogs, assigneeId) ==
    LET hits == {k \in 1..Len(timeLogs) :
                    timeLogs[k].assigneeId = assigneeId /\ NoEndTime(timeLogs[k])}
    IN  IF hits = {} THEN 0 ELSE CHOOSE k \in hits : \A j \in hits : j <= k

\* sprint.timeLogs.find(log => log.assigneeId.equals(assigneeId) && !log.endTime):
\* the position of the first such log, 0 when there is none
FindActiveLog(timeLogs, assigneeId) ==
    LET hits == {k \in 1..Len(timeLogs) :
                    timeLogs[k].assigneeId = assigneeId /\ NoEndTime(timeLogs[k])}
    IN  IF hits = {} THEN 0 ELSE CHOOSE k \in hits : \A j \in hits : k <= j

\* faulty variant of IncompleteTimeLogs: only the last log is looked at
IncompleteTimeLogsLast(timeLogs) ==
    Len(timeLogs) > 0 /\ NoEndTime(timeLogs[Len(timeLogs)])

\* sprint.timeLogs.some(log => !log.endTime)
IncompleteTimeLogs(timeLogs) == \E k \in 1..Len(timeLogs) : NoEndTime(timeLogs[k])

\* Sprint.findOne({_id: {$ne: sprintId}, status: 'active', issues: issue._id})
IsInOtherSprint(sprintId, issueId) ==
    \E o \in DOMAIN sprints :
        /\ o # sprintId
        /\ sprints[o].status = "active"
        /\ issueId \in Range(sprints[o].issues)

\* faulty variant of EndSprintStatus: the inner else keeps the status
EndSprintStatusKeep(status) ==
    IF status = "in_progress" THEN "done"
    ELSE IF status = "to_do" THEN "backlog"
    ELSE status

\* the $cond pipeline of end-sprint
EndSprintStatus(status) ==
    IF status = "in_progress" THEN "done"
    ELSE IF status = "to_do" THEN "backlog"
    ELSE "done"

\* faulty variant of IsPlanned: only a sprint that is active now is refused
IsNotActive(sprint) == sprint.status # "active"

\* sprint.status !== 'planned' is false
IsPlanned(sprint) == sprint.status = "planned"

\* faulty variant of StartSprintIssues: only backlog issues are moved to to_do
StartSprintIssuesBacklogOnly(iss, ids) ==
    [i \in DOMAIN iss |->
        IF i \in Range(ids) /\ iss[i].status = "backlog"
        THEN [iss[i] EXCEPT !.status = "to_do"] ELSE iss[i]]

\* Issue.updateMany({_id: {$in: ids}}, {status: 'to_do'})
StartSprintIssues(iss, ids) ==
    [i \in DOMAIN iss |->
        IF i \in Range(ids) THEN [iss[i] EXCEPT !.status = "to_do"] ELSE iss[i]]

\* Issue.updateMany({_id: {$in: ids}}, [{$set: {status: {$cond: ...}}}])
EndSprintIssues(iss, ids) ==
    [i \in DOMAIN iss |->
        IF i \in Range(ids)
        THEN [iss[i] EXCEPT !.status = EndSprintStatus(iss[i].status)]
        ELSE iss[i]]

\* ------------------------------------------------------------------- Init
\* The database after POST /sprints and POST /issues requests: planned sprints
\* without issues or time logs and two backlog issues, each with the assignee
\* its creation request named, in two projects; the server runs in UTC.
InitWith(sprintIds, assignee) ==
    /\ sprints = [s \in sprintIds |-> NewSprint]
    /\ issues = [i \in {"i1", "i2"} |-> NewIssue(assignee[i])]
    /\ now = 0
    /\ resp = NoResponse
    /\ reqs = [r \in Slots |-> Idle]
    /\ projects = [p \in {"p1", "p2"} |-> NewProject]
    /\ zone = 0

\* two sprints, each issue assigned to another employee
Init == InitWith({"s1", "s2"}, [i \in {"i1", "i2"} |-> IF i = "i1" THEN "a1" ELSE "a2"])

\* one sprint; both issues assigned to one employee, or each to another
InitCore ==
    \E a \in AssigneeIds :
        InitWith({"s1"}, [i \in {"i1", "i2"} |-> IF i = "i1" THEN "a1" ELSE a])

\* one sprint, each issue assigned to another employee
InitSprint == InitWith({"s1"}, [i \in {"i1", "i2"} |-> IF i = "i1" THEN "a1" ELSE "a2"])

\* two sprints after add-to-sprint of i1 and i2 to s1 and start-sprint of s1:
\* s1 active with both issues to_do and no time log yet, s2 still planned; the
\* issues are assigned to one employee, or each to another
InitLog ==
    \E a \in AssigneeIds :
        /\ sprints = [s \in {"s1", "s2"} |->
              IF s = "s1"
              THEN [NewSprint EXCEPT !.status = "active", !.issues = <<"i1", "i2">>, !.v = 2]
              ELSE NewSprint]
        /\ issues = [i \in {"i1", "i2"} |->
              [NewIssue(IF i = "i1" THEN "a1" ELSE a) EXCEPT !.status = "to_do"]]
        /\ now = 0
        /\ resp = Response("startSprint",
                     setSuccessResponse(CREATED, TRUE, "sprint started and issues updated"))
        /\ reqs = [r \in Slots |-> Idle]
        /\ projects = [p \in {"p1", "p2"} |-> NewProject]
        /\ zone = 0

\* no sprint and no issue yet, two projects; the server runs in any zone
InitCreate ==
    /\ sprints = [s \in {} |-> NewSprint]
    /\ issues = [i \in {} |-> NewIssue(None)]
    /\ now = 0
    /\ resp = NoResponse
    /\ reqs = [r \in Slots |-> Idle]
    /\ projects = [p \in {"p1", "p2"} |-> NewProject]
    /\ zone \in Zones

\* new Date(): the time t a handler reads; the clock never runs backwards
ReadClock(t) == t \in now..(IF now < MaxTime THEN now + 1 ELSE now)

\* ----------------------------------------------------- POST / (sprints)
\* moment(text): a text without offset names a local time, with or without a
\* time of day; the result is the instant (UTC)
MomentParse(d) == IF d.form = "utc" THEN d.wall ELSE d.wall - zone

\* the Date the schema casts the text to, new Date(text): a date without time
\* is UTC midnight, a date and time without offset is local
DateCast(d) == IF d.form = "local" THEN d.wall - zone ELSE d.wall

\* start.isAfter(end)
IsAfter(startDate, endDate) == MomentParse(startDate) > MomentParse(endDate)

\* start.isSame(end, 'day'): the same local day
IsSameDay(startDate, endDate) ==
    (MomentParse(startDate) + zone) \div DayLength
        = (MomentParse(endDate) + zone) \div DayLength

\* validateDates(startDate, endDate): the error text, None for null
validateDates(startDate, endDate) ==
    IF IsAfter(startDate, endDate) THEN "Start date cannot be greater than end date"
    ELSE IF IsSameDay(startDate, endDate) /\ IsAfter(startDate, endDate)
         THEN "Start date cannot be later than end date on the same day"
    ELSE None

\* new Sprint({projectId, name, startDate, endDate})
CreatedSprint(projectId, name, startDate, endDate) ==
    NewSprint @@ [projectId |-> projectId, name |-> name,
                  startDate |-> DateCast(startDate), endDate |-> DateCast(endDate)]

\* Sprint.findOne({name, projectId}) found a document
SprintExistsInProject(name, projectId) ==
    \E s \in DOMAIN sprints : sprints[s].name = name /\ sprints[s].projectId = projectId

\* Sprint.findOne({name}) found a document
SprintExists(name) == \E s \in DOMAIN sprints : sprints[s].name = name

\* !project || project.isDeleted is false
ProjectLive(projectId) == projectId \in DOMAIN projects /\ ~projects[projectId].isDeleted

\* faulty variant of CreateSprintResult: the name is looked up in all projects only
CreateSprintResultAnyProject(projectId, name, startDate, endDate) ==
    IF validateDates(startDate, endDate) # None
    THEN Reply(BAD_REQUEST, validateDates(startDate, endDate))
    ELSE IF SprintExists(name) THEN Reply(CONFLICT, "Sprint already exists")
    ELSE IF ~ProjectLive(projectId) THEN Reply(NOT_FOUND, "Project not exists")
    ELSE setSuccessResponse(CREATED, TRUE, "Sprint created successfully")

CreateSprintResult(projectId, name, startDate, endDate) ==
    IF validateDates(startDate, endDate) # None
    THEN Reply(BAD_REQUEST, validateDates(startDate, endDate))
    ELSE IF SprintExistsInProject(name, projectId)
         THEN Reply(CONFLICT, "Sprint name already exists in this project")
    ELSE IF SprintExists(name) THEN Reply(CONFLICT, "Sprint already exists")
    ELSE IF ~ProjectLive(projectId) THEN Reply(NOT_FOUND, "Project not exists")
    ELSE setSuccessResponse(CREATED, TRUE, "Sprint created successfully")

\* the _id the next created sprint gets
NextSprintId == CreatedIds[Cardinality(DOMAIN sprints) + 1]

CreateSprint(projectId, name, startDate, endDate) ==
    LET r == CreateSprintResult(projectId, name, startDate, endDate) IN
    /\ resp' = Response("createSprint", r)
    /\ IF r.code = CREATED
       THEN /\ Cardinality(DOMAIN sprints) < Len(CreatedIds)
            /\ sprints' = [s \in DOMAIN sprints \cup {NextSprintId} |->
                              IF s = NextSprintId
                              THEN CreatedSprint(projectId, name, startDate, endDate)
                              ELSE sprints[s]]
       ELSE UNCHANGED sprints
    /\ UNCHANGED <<issues, now, reqs, projects, zone>>

\* ------------------------------------------------- DELETE /:id (projects)
\* faulty variant of DeleteProjectResult: a deleted project is deleted again
DeleteProjectResultAgain(id) ==
    IF id \notin DOMAIN projects THEN Reply(NOT_FOUND, "Project not found")
    ELSE setSuccessResponse(CREATED, TRUE, "Project deleted sucessfully")

DeleteProjectResult(id) ==
    IF id \notin DOMAIN projects THEN Reply(NOT_FOUND, "Project not found")
    ELSE IF projects[id].isDeleted THEN Reply(SERVER_ERROR, "Project is already deleted")
    ELSE setSuccessResponse(CREATED, TRUE, "Project deleted sucessfully")

DeleteProject(id) ==
    LET r == DeleteProjectResult(id) IN
    /\ resp' = Response("deleteProject", r)
    /\ IF r.code = CREATED
       THEN projects' = [projects EXCEPT ![id].isDeleted = TRUE]
       ELSE UNCHANGED projects
    /\ UNCHANGED <<sprints, issues, now, reqs, zone>>

\* --------------------------------------------------- POST / (projects)
\* Project.findOne({name}) found a document, deleted or not
ProjectExists(name) == \E p \in DOMAIN projects : projects[p].name = name

\* owner: getEmployeeById(ownerId) answered with an employee profile
CreateProjectResult(name, owner) ==
    IF ProjectExists(name) THEN Reply(CONFLICT, "Project already exists.")
    ELSE IF ~owner
         THEN Reply(BAD_REQUEST,
                  "Invalid ownerId. No matching employee found in attendance system.")
    ELSE setSuccessResponse(CREATED, TRUE, "Project created successfully")

\* the _id the next created project gets
NextProjectId == CreatedProjectIds[Cardinality(DOMAIN projects) + 1]

CreateProject(name, owner) ==
    LET r == CreateProjectResult(name, owner) IN
    /\ resp' = Response("createProject", r)
    /\ IF r.code = CREATED
       THEN /\ Cardinality(DOMAIN projects) < Len(CreatedProjectIds)
            /\ projects' = [p \in DOMAIN projects \cup {NextProjectId} |->
                               IF p = NextProjectId THEN CreatedProject(name)
                               ELSE projects[p]]
       ELSE UNCHANGED projects
    /\ UNCHANGED <<sprints, issues, now, reqs, zone>>

\* ---------------------------------------------------- PUT /:id (projects)
UpdateProjectResult(id) ==
    IF ~ProjectLive(id) THEN Reply(NOT_FOUND, "Project not found")
    ELSE setSuccessResponse(CREATED, TRUE, "Project updated successfully")

\* if (name) project.name = name; await project.save()
UpdateProject(id, name) ==
    LET r == UpdateProjectResult(id) IN
    /\ resp' = Response("updateProject", r)
    /\ IF r.code = CREATED
       THEN projects' = [projects EXCEPT ![id].name = name]
       ELSE UNCHANGED projects
    /\ UNCHANGED <<sprints, issues, now, reqs, zone>>

\* --------------------------------------------- PUT /add-to-sprint/:issueId
\* faulty variant of AddToSprintResult: only other active sprints are looked at
AddToSprintResultOtherOnly(issueId, sprintId) ==
    IF ~SprintFound(sprintId) THEN Reply(NOT_FOUND, "Sprint not found")
    ELSE IF ~IssueLive(issueId) THEN Reply(NOT_FOUND, "Issue not found")
    ELSE IF IsInOtherSprint(sprintId, issueId)
         THEN Reply(CONFLICT, "Issue is already part of another active sprint")
    ELSE setSuccessResponse(CREATED, TRUE,
                            "Issue added to the sprint and status updated to to_do")

AddToSprintResult(issueId, sprintId) ==
    IF ~SprintFound(sprintId) THEN Reply(NOT_FOUND, "Sprint not found")
    ELSE IF ~IssueLive(issueId) THEN Reply(NOT_FOUND, "Issue not found")
    ELSE IF issueId \in Range(sprints[sprintId].issues)
         THEN Reply(CONFLICT, "This Issue already added to this sprint")
    ELSE IF IsInOtherSprint(sprintId, issueId)
         THEN Reply(CONFLICT, "Issue is already part of another active sprint")
    ELSE setSuccessResponse(CREATED, TRUE,
                            "Issue added to the sprint and status updated to to_do")

AddToSprint(issueId, sprintId) ==
    LET r == AddToSprintResult(issueId, sprintId) IN
    /\ resp' = Response("addToSprint", r)
    /\ IF r.code = CREATED
       THEN /\ sprints' = [sprints EXCEPT ![sprintId].issues = Append(@, issueId),
                                          ![sprintId].v = @ + 1]
            /\ issues' = [issues EXCEPT ![issueId].status = "to_do"]
       ELSE UNCHANGED <<sprints, issues>>
    /\ UNCHANGED <<now, reqs, projects, zone>>

\* -------------------------------------------- PUT /start-sprint/:sprintId
\* faulty variant of StartSprintResult: only a missing sprint is refused
StartSprintResultFoundOnly(sprintId) ==
    IF ~SprintFound(sprintId)
    THEN Reply(NOT_FOUND, "Sprint not found or already started")
    ELSE setSuccessResponse(CREATED, TRUE, "sprint started and issues updated")

StartSprintResult(sprintId) ==
    IF ~SprintFound(sprintId) \/ ~IsPlanned(sprints[sprintId])
    THEN Reply(NOT_FOUND, "Sprint not found or already started")
    ELSE setSuccessResponse(CREATED, TRUE, "sprint started and issues updated")

StartSprint(sprintId) ==
    LET r == StartSprintResult(sprintId) IN
    /\ resp' = Response("startSprint", r)
    /\ IF r.code = CREATED
       THEN /\ sprints' = [sprints EXCEPT ![sprintId].status = "active"]
            /\ issues' = StartSprintIssues(issues, sprints[sprintId].issues)
       ELSE UNCHANGED <<sprints, issues>>
    /\ UNCHANGED <<now, reqs, projects, zone>>

\* --------------------------------------------- POST /end-sprint/:sprintId
EndSprintResult(sprintId) ==
    IF ~SprintFound(sprintId) THEN Reply(NOT_FOUND, "Sprint not found")
    ELSE IF sprints[sprintId].status = "completed"
         THEN Reply(BAD_REQUEST, "Sprint is already completed")
    ELSE IF IncompleteTimeLogs(sprints[sprintId].timeLogs)
         THEN Reply(BAD_REQUEST, "Cannot end sprint as there are unfinished time logs")
    ELSE setSuccessResponse(CREATED, "Sprint completed and issues updated", None)

EndSprint(sprintId) ==
    LET r == EndSprintResult(sprintId) IN
    /\ resp' = Response("endSprint", r)
    /\ IF r.code = CREATED
       THEN /\ sprints' = [sprints EXCEPT ![sprintId].status = "completed"]
            /\ issues' = EndSprintIssues(issues, sprints[sprintId].issues)
       ELSE UNCHANGED <<sprints, issues>>
    /\ UNCHANGED <<now, reqs, projects, zone>>

\* ------------------------------------- POST /:sprintId/time-log/start
\* faulty variant of TimeLogStartResult: a running log blocks only the issue it is on
TimeLogStartResultPerIssue(sprintId, issueId, assigneeId, user) ==
    IF ~SprintFound(sprintId) THEN Reply(NOT_FOUND, "Sprint not found")
    ELSE IF sprints[sprintId].status # "active"
         THEN Reply(BAD_REQUEST, "Sprint is not active")
    ELSE IF ~IssueLive(issueId) THEN Reply(NOT_FOUND, "Issue not exists")
    ELSE IF ~user THEN Reply(NOT_FOUND, "assignee not exists in attendance-db")
    ELSE IF issues[issueId].assigneeId # assigneeId
         THEN Reply(BAD_REQUEST, "Assignee ID does not match the assigned user for this issue")
    ELSE IF \E k \in 1..Len(sprints[sprintId].timeLogs) :
                /\ sprints[sprintId].timeLogs[k].assigneeId = assigneeId
                /\ sprints[sprintId].timeLogs[k].issueId = issueId
                /\ NoEndTime(sprints[sprintId].timeLogs[k])
         THEN Reply(BAD_REQUEST, "User already has an active time log on another issue")
    ELSE Reply(OK, "Time log started")

\* faulty variant of TimeLogStartResult: the assignee is compared with the
\* issue's before the directory is asked
TimeLogStartResultMatchFirst(sprintId, issueId, assigneeId, user) ==
    IF ~SprintFound(sprintId) THEN Reply(NOT_FOUND, "Sprint not found")
    ELSE IF sprints[sprintId].status # "active"
         THEN Reply(BAD_REQUEST, "Sprint is not active")
    ELSE IF ~IssueLive(issueId) THEN Reply(NOT_FOUND, "Issue not exists")
    ELSE IF issues[issueId].assigneeId # assigneeId
         THEN Reply(BAD_REQUEST, "Assignee ID does not match the assigned user for this issue")
    ELSE IF ~user THEN Reply(NOT_FOUND, "assignee not exists in attendance-db")
    ELSE IF FindActiveLog(sprints[sprintId].timeLogs, assigneeId) # 0
         THEN Reply(BAD_REQUEST, "User already has an active time log on another issue")
    ELSE Reply(OK, "Time log started")

\* user: whether getEmployeeById(assigneeId) resolved (it is null on any error)
TimeLogStartResult(sprintId, issueId, assigneeId, user) ==
    IF ~SprintFound(sprintId) THEN Reply(NOT_FOUND, "Sprint not found")
    ELSE IF sprints[sprintId].status # "active"
         THEN Reply(BAD_REQUEST, "Sprint is not active")
    ELSE IF ~IssueLive(issueId) THEN Reply(NOT_FOUND, "Issue not exists")
    ELSE IF ~user THEN Reply(NOT_FOUND, "assignee not exists in attendance-db")
    ELSE IF issues[issueId].assigneeId # assigneeId
         THEN Reply(BAD_REQUEST, "Assignee ID does not match the assigned user for this issue")
    ELSE IF FindActiveLog(sprints[sprintId].timeLogs, assigneeId) # 0
         THEN Reply(BAD_REQUEST, "User already has an active time log on another issue")
    ELSE Reply(OK, "Time log started")

TimeLogStart(sprintId, issueId, assigneeId, user) ==
    LET r == TimeLogStartResult(sprintId, issueId, assigneeId, user) IN
    /\ resp' = Response("timeLogStart", r)
    /\ IF r.code = OK
       THEN /\ Len(sprints[sprintId].timeLogs) < MaxLogs
            /\ \E t \in 0..MaxTime :
                  /\ ReadClock(t)
                  /\ now' = t
                  /\ sprints' = [sprints EXCEPT
                        ![sprintId].timeLogs =
                            Append(@, TimeLog(assigneeId, issueId, t, NoTime, 0)),
                        ![sprintId].v = @ + 1]
            /\ issues' = [issues EXCEPT ![issueId].status = "in_progress"]
       ELSE UNCHANGED <<sprints, issues, now>>
    /\ UNCHANGED <<reqs, projects, zone>>

\* --------------------------------------------------- POST /time-log/stop
TimeLogStopResult(sprintId, assigneeId) ==
    IF ~SprintFound(sprintId) THEN Reply(NOT_FOUND, "Sprint not found")
    ELSE IF FindActiveLog(sprints[sprintId].timeLogs, assigneeId) = 0
         THEN setSuccessResponse(NOT_FOUND, FALSE, "No active time-log found")
    ELSE setSuccessResponse(CREATED, TRUE, "Time log stopped")

\* log.endTime = new Date(); log.timeSpent = endTime - startTime
StopLog(log, t) == [log EXCEPT !.endTime = t, !.timeSpent = t - log.startTime]

\* the paths IssueSchema declares, of those the model keeps
IssueSchemaPaths == {"status", "assigneeId", "isDeleted", "timeSpent", "sprintId"}

\* issue.totalTimeSpent || 0
TotalTimeSpent(issue) ==
    IF "totalTimeSpent" \in DOMAIN issue THEN issue.totalTimeSpent ELSE 0

\* issue.save() after issue[path] = value: save() writes the paths the schema
\* declares; a property it does not declare stays on the loaded object and
\* never reaches the document
SaveIssuePath(iss, issueId, path, value) ==
    IF path \in IssueSchemaPaths
    THEN [iss EXCEPT ![issueId] =
            [p \in DOMAIN iss[issueId] \cup {path} |->
                IF p = path THEN value ELSE iss[issueId][p]]]
    ELSE iss

\* const issue = await Issue.findById(log.issueId);
\* if (issue) { issue.totalTimeSpent = (issue.totalTimeSpent || 0) + timeSpent;
\*              await issue.save(); }
StopIssueSave(iss, issueId, timeSpent) ==
    IF issueId \notin DOMAIN iss THEN iss
    ELSE SaveIssuePath(iss, issueId, "totalTimeSpent",
                       TotalTimeSpent(iss[issueId]) + timeSpent)

TimeLogStop(sprintId, assigneeId) ==
    LET r == TimeLogStopResult(sprintId, assigneeId) IN
    /\ resp' = Response("timeLogStop", r)
    /\ IF r.code = CREATED
       THEN LET k == FindActiveLog(sprints[sprintId].timeLogs, assigneeId) IN
            \E t \in 0..MaxTime :
               /\ ReadClock(t)
               /\ now' = t
               /\ sprints' = [sprints EXCEPT ![sprintId].timeLogs[k] = StopLog(@, t)]
               /\ issues' = StopIssueSave(issues, sprints[sprintId].timeLogs[k].issueId,
                                          t - sprints[sprintId].timeLogs[k].startTime)
       ELSE UNCHANGED <<sprints, issues, now>>
    /\ UNCHANGED <<reqs, projects, zone>>

\* ------------------------------------------------ POST /time-log/:sprintId
\* the body's startTime, endTime and timeSpent are stored as sent
AddStartTimes == {0}
AddEndTimes   == {NoTime, 1}
AddTimeSpent  == {0}

TimeLogAddResult(sprintId, issueId) ==
    IF ~SprintFound(sprintId) THEN Reply(NOT_FOUND, "Sprint not found")
    ELSE IF ~IssueFound(issueId) THEN Reply(NOT_FOUND, "Issue not found")
    ELSE Reply(OK, None)

TimeLogAdd(sprintId, assigneeId, issueId, timeSpent, startTime, endTime) ==
    LET r == TimeLogAddResult(sprintId, issueId) IN
    /\ resp' = Response("timeLogAdd", r)
    /\ IF r.code = OK
       THEN /\ Len(sprints[sprintId].timeLogs) < MaxLogs
            /\ sprints' = [sprints EXCEPT
                  ![sprintId].timeLogs =
                      Append(@, TimeLog(assigneeId, issueId, startTime, endTime, timeSpent)),
                  ![sprintId].v = @ + 1]
       ELSE UNCHANGED sprints
    /\ UNCHANGED <<issues, now, reqs, projects, zone>>

\* ------------------------------------------------------- PUT /:issueId
\* the body's status, when given, replaces the issue's status
UpdateIssueResult(issueId) ==
    IF ~IssueLive(issueId) THEN Reply(NOT_FOUND, "Issue not found") ELSE Reply(OK, None)

UpdateIssue(issueId, status) ==
    LET r == UpdateIssueResult(issueId) IN
    /\ resp' = Response("updateIssue", r)
    /\ IF r.code = OK
       THEN issues' = [issues EXCEPT ![issueId].status = status]
       ELSE UNCHANGED issues
    /\ UNCHANGED <<sprints, now, reqs, projects, zone>>

\* ------------------------------------------------ PUT /:issueId/status
ValidStatuses == {"to_do", "in_progress", "done"}

UpdateIssueStatusResult(issueId, status) ==
    IF ~IssueLive(issueId) THEN Reply(NOT_FOUND, "Issue deleted or not found")
    ELSE IF status \notin ValidStatuses THEN Reply(BAD_REQUEST, "Invalid status")
    ELSE Reply(OK, "Issue status updated")

UpdateIssueStatus(issueId, status) ==
    LET r == UpdateIssueStatusResult(issueId, status) IN
    /\ resp' = Response("updateIssueStatus", r)
    /\ IF r.code = OK
       THEN issues' = SaveIssuePath(issues, issueId, "status", status)
       ELSE UNCHANGED issues
    /\ UNCHANGED <<sprints, now, reqs, projects, zone>>

\* ------------------------------------------------ GET /:sprintId/total-time
\* log.startTime && log.endTime (stored dates are valid, so the isNaN test of
\* the handler never fails)
HasBothTimes(log) == log.startTime # NoTime /\ log.endTime # NoTime

\* faulty variant of TotalTimeMs: the stored timeSpent of each log is added
RECURSIVE TotalTimeMsOfTimeSpent(_)
TotalTimeMsOfTimeSpent(timeLogs) ==
    IF timeLogs = <<>> THEN 0
    ELSE Head(timeLogs).timeSpent + TotalTimeMsOfTimeSpent(Tail(timeLogs))

\* let totalTime = 0; timeLogs.forEach(log => { if (...) totalTime += end - start })
RECURSIVE TotalTimeMs(_)
TotalTimeMs(timeLogs) ==
    IF timeLogs = <<>> THEN 0
    ELSE (IF HasBothTimes(Head(timeLogs))
          THEN Head(timeLogs).endTime - Head(timeLogs).startTime
          ELSE 0) + TotalTimeMs(Tail(timeLogs))

TotalTimeResult(sprintId) ==
    IF ~SprintFound(sprintId) THEN Reply(NOT_FOUND, "Sprint not found")
    ELSE IF Len(sprints[sprintId].timeLogs) = 0
         THEN Reply(NOT_FOUND, "No time logs found for this sprint")
    ELSE Reply(OK, None)

\* the answer carries totalTimeMs (and a text of hours and minutes made from it)
GetTotalTime(sprintId) ==
    LET r == TotalTimeResult(sprintId) IN
    /\ resp' = IF r.code = OK
               THEN DataResponse("totalTime", r,
                        [totalTimeMs |-> TotalTimeMs(sprints[sprintId].timeLogs)])
               ELSE Response("totalTime", r)
    /\ UNCHANGED <<sprints, issues, now, reqs, projects, zone>>

\* ------------------------------------------------- GET /:sprintId/analytics
\* sprint.timeLogs.filter(log => log.issueId.toString() === issue._id.toString())
\* and the forEach over the result
RECURSIVE IssueTimeMs(_, _)
IssueTimeMs(timeLogs, issueId) ==
    IF timeLogs = <<>> THEN 0
    ELSE (IF Head(timeLogs).issueId = issueId /\ HasBothTimes(Head(timeLogs))
          THEN Head(timeLogs).endTime - Head(timeLogs).startTime
          ELSE 0) + IssueTimeMs(Tail(timeLogs), issueId)

\* sprint.issues.forEach(issue => ...) over the populated issues
RECURSIVE AnalyticsTimeMs(_, _)
AnalyticsTimeMs(ids, timeLogs) ==
    IF ids = <<>> THEN 0
    ELSE IssueTimeMs(timeLogs, Head(ids)) + AnalyticsTimeMs(Tail(ids), timeLogs)

\* if (issue.status === status) issuesStatus[status]++
StatusCount(ids, status) ==
    Cardinality({k \in 1..Len(ids) : issues[ids[k]].status = status})

AnalyticsResult(sprintId) ==
    IF ~SprintFound(sprintId) THEN Reply(NOT_FOUND, "Sprint not found")
    ELSE IF Len(sprints[sprintId].issues) = 0
         THEN Reply(NOT_FOUND, "No issues found for this sprint")
    ELSE Reply(OK, None)

GetAnalytics(sprintId) ==
    LET r == AnalyticsResult(sprintId) IN
    /\ resp' = IF r.code = OK
               THEN DataResponse("analytics", r,
                        [totalTimeSpentMs |->
                            AnalyticsTimeMs(sprints[sprintId].issues,
                                            sprints[sprintId].timeLogs),
                         issuesStatus |->
                            [st \in {"to_do", "in_progress", "done"} |->
                                StatusCount(sprints[sprintId].issues, st)]])
               ELSE Response("analytics", r)
    /\ UNCHANGED <<sprints, issues, now, reqs, projects, zone>>

\* ---------------------------------------------------- DELETE /:issueId
DeleteIssueResult(issueId) ==
    IF ~IssueFound(issueId) THEN Reply(NOT_FOUND, "Issue not found")
    ELSE IF issues[issueId].isDeleted THEN Reply(NOT_FOUND, "Issue already deleted")
    ELSE Reply(OK, "Issue soft deleted successfully")

DeleteIssue(issueId) ==
    LET r == DeleteIssueResult(issueId) IN
    /\ resp' = Response("deleteIssue", r)
    /\ IF r.code = OK
       THEN issues' = SaveIssuePath(issues, issueId, "isDeleted", TRUE)
       ELSE UNCHANGED issues
    /\ UNCHANGED <<sprints, now, reqs, projects, zone>>

\* ============================================== interleaved requests
\* Each handler is a chain of awaited calls; between two awaits another
\* request may run.  A slot runs one request: Begin, the handler's steps, and
\* "done" with the answer in res.  Mongoose's save() sends the changes of the
\* loaded document: a push to an array is $push with {$inc: {__v: 1}}, an
\* assignment to a field of an array element is $set of "timeLogs.k.field"
\* under the condition {__v: <version loaded>} (VersionError when no document
\* matches), an assignment to a top-level field is a plain $set.

\* the sprint s1 after add-to-sprint of i1 and i2 and start-sprint; with
\* running = TRUE also after a1's time-log start on i1 at time 0
InitConc ==
    \E a \in AssigneeIds, running \in BOOLEAN :
        /\ sprints = [s \in {"s1"} |->
              [status |-> "active", issues |-> <<"i1", "i2">>,
               timeLogs |-> IF running THEN <<TimeLog("a1", "i1", 0, NoTime, 0)>> ELSE <<>>,
               v |-> IF running THEN 3 ELSE 2]]
        /\ issues = [i \in {"i1", "i2"} |->
              [NewIssue(IF i = "i1" THEN "a1" ELSE a) EXCEPT
                  !.status = IF running /\ i = "i1" THEN "in_progress" ELSE "to_do"]]
        /\ now = 0
        /\ resp = NoResponse
        /\ reqs = [r \in Slots |-> Idle]
        /\ projects = [p \in {"p1", "p2"} |-> NewProject]
        /\ zone = 0

ConcOps == {"timeLogStart", "timeLogStop", "endSprint"}

\* a request arrives
Begin(r, op, sprintId, issueId, assigneeId) ==
    /\ reqs[r].pc = "idle"
    /\ reqs' = [reqs EXCEPT ![r] =
          Request("findSprint", op, sprintId,
                  IF op = "timeLogStart" THEN issueId ELSE None,
                  IF op = "endSprint" THEN None ELSE assigneeId,
                  None, 0, None, Reply(0, None))]
    /\ UNCHANGED <<sprints, issues, now, resp, projects, zone>>

At(r, op, pc) == reqs[r].op = op /\ reqs[r].pc = pc

\* the handler answers
Done(r, res) == reqs' = [reqs EXCEPT ![r].pc = "done", ![r].res = res]

Goto(r, pc) == reqs' = [reqs EXCEPT ![r].pc = pc]

\* ---- POST /:sprintId/time-log/start
\* const sprint = await Sprint.findById(sprintId); status check
StartFindSprint(r) ==
    LET q == reqs[r] IN
    /\ At(r, "timeLogStart", "findSprint")
    /\ IF ~SprintFound(q.sprintId) THEN Done(r, Reply(NOT_FOUND, "Sprint not found"))
       ELSE IF sprints[q.sprintId].status # "active"
            THEN Done(r, Reply(BAD_REQUEST, "Sprint is not active"))
       ELSE reqs' = [reqs EXCEPT ![r].pc = "findIssue", ![r].doc = sprints[q.sprintId]]
    /\ UNCHANGED <<sprints, issues, now, resp, projects, zone>>

\* const issue = await Issue.findOne({_id: issueId})
StartFindIssue(r) ==
    LET q == reqs[r] IN
    /\ At(r, "timeLogStart", "findIssue")
    /\ IF ~IssueLive(q.issueId) THEN Done(r, Reply(NOT_FOUND, "Issue not exists"))
       ELSE reqs' = [reqs EXCEPT ![r].pc = "getEmployee",
                                 ![r].log = issues[q.issueId].assigneeId]
    /\ UNCHANGED <<sprints, issues, now, resp, projects, zone>>

\* const user = await getEmployeeById(assigneeId); the checks on the loaded
\* documents; sprint.timeLogs.push({issueId, assigneeId, startTime: new Date()})
StartGetEmployee(r) ==
    LET q == reqs[r] IN
    /\ At(r, "timeLogStart", "getEmployee")
    /\ \E user \in BOOLEAN, t \in 0..MaxTime :
          /\ ReadClock(t)
          /\ IF ~user
             THEN Done(r, Reply(NOT_FOUND, "assignee not exists in attendance-db"))
                  /\ UNCHANGED now
             ELSE IF q.log # q.assigneeId
             THEN Done(r, Reply(BAD_REQUEST,
                       "Assignee ID does not match the assigned user for this issue"))
                  /\ UNCHANGED now
             ELSE IF FindActiveLog(q.doc.timeLogs, q.assigneeId) # 0
             THEN Done(r, Reply(BAD_REQUEST,
                       "User already has an active time log on another issue"))
                  /\ UNCHANGED now
             ELSE /\ reqs' = [reqs EXCEPT ![r].pc = "saveSprint",
                        ![r].log = TimeLog(q.assigneeId, q.issueId, t, NoTime, 0)]
                  /\ now' = t
    /\ UNCHANGED <<sprints, issues, resp, projects, zone>>

\* await sprint.save(): $push of the new log, $inc of __v
StartSaveSprint(r) ==
    LET q == reqs[r] IN
    /\ At(r, "timeLogStart", "saveSprint")
    /\ Len(sprints[q.sprintId].timeLogs) < MaxLogs
    /\ sprints' = [sprints EXCEPT ![q.sprintId].timeLogs = Append(@, q.log),
                                  ![q.sprintId].v = @ + 1]
    /\ Goto(r, "saveIssue")
    /\ UNCHANGED <<issues, now, resp, projects, zone>>

\* issue.status = 'in_progress'; await issue.save()
StartSaveIssue(r) ==
    LET q == reqs[r] IN
    /\ At(r, "timeLogStart", "saveIssue")
    /\ issues' = SaveIssuePath(issues, q.issueId, "status", "in_progress")
    /\ Done(r, Reply(OK, "Time log started"))
    /\ UNCHANGED <<sprints, now, resp, projects, zone>>

\* ---- POST /time-log/stop
\* const sprint = await Sprint.findById(sprintId); find the running log;
\* log.endTime = new Date(); log.timeSpent = endTime - startTime
StopFindSprint(r) ==
    LET q == reqs[r] IN
    /\ At(r, "timeLogStop", "findSprint")
    /\ IF ~SprintFound(q.sprintId)
       THEN Done(r, Reply(NOT_FOUND, "Sprint not found")) /\ UNCHANGED now
       ELSE LET k == FindActiveLog(sprints[q.sprintId].timeLogs, q.assigneeId) IN
            IF k = 0
            THEN Done(r, setSuccessResponse(NOT_FOUND, FALSE, "No active time-log found"))
                 /\ UNCHANGED now
            ELSE \E t \in 0..MaxTime :
                    /\ ReadClock(t)
                    /\ now' = t
                    /\ reqs' = [reqs EXCEPT ![r].pc = "findIssue",
                          ![r].doc = sprints[q.sprintId], ![r].k = k,
                          ![r].log = StopLog(sprints[q.sprintId].timeLogs[k], t)]
    /\ UNCHANGED <<sprints, issues, resp, projects, zone>>

\* const issue = await Issue.findById(log.issueId);
\* issue.totalTimeSpent = (issue.totalTimeSpent || 0) + timeSpent; await issue.save()
StopSaveIssue(r) ==
    LET q == reqs[r] IN
    /\ At(r, "timeLogStop", "findIssue")
    /\ issues' = StopIssueSave(issues, q.log.issueId, q.log.timeSpent)
    /\ Goto(r, "saveSprint")
    /\ UNCHANGED <<sprints, now, resp, projects, zone>>

\* await sprint.save(): $set of timeLogs.k.endTime and timeLogs.k.timeSpent
\* where __v is the version loaded; VersionError is caught and answered 500
StopSaveSprint(r) ==
    LET q == reqs[r] IN
    /\ At(r, "timeLogStop", "saveSprint")
    /\ IF sprints[q.sprintId].v # q.doc.v
       THEN Done(r, Reply(SERVER_ERROR, "Server error")) /\ UNCHANGED sprints
       ELSE /\ sprints' = [sprints EXCEPT ![q.sprintId].timeLogs[q.k] =
                    [@ EXCEPT !.endTime = q.log.endTime, !.timeSpent = q.log.timeSpent]]
            /\ Done(r, setSuccessResponse(CREATED, TRUE, "Time log stopped"))
    /\ UNCHANGED <<issues, now, resp, projects, zone>>

\* ---- POST /end-sprint/:sprintId
\* const sprint = await Sprint.findById(sprintId)...; the three checks
EndFindSprint(r) ==
    LET q == reqs[r] IN
    /\ At(r, "endSprint", "findSprint")
    /\ IF ~SprintFound(q.sprintId) THEN Done(r, Reply(NOT_FOUND, "Sprint not found"))
       ELSE IF sprints[q.sprintId].status = "completed"
            THEN Done(r, Reply(BAD_REQUEST, "Sprint is already completed"))
       ELSE IF IncompleteTimeLogs(sprints[q.sprintId].timeLogs)
            THEN Done(r, Reply(BAD_REQUEST,
                      "Cannot end sprint as there are unfinished time logs"))
       ELSE reqs' = [reqs EXCEPT ![r].pc = "saveSprint", ![r].doc = sprints[q.sprintId]]
    /\ UNCHANGED <<sprints, issues, now, resp, projects, zone>>

\* sprint.status = 'completed'; await sprint.save(): $set of status
EndSaveSprint(r) ==
    LET q == reqs[r] IN
    /\ At(r, "endSprint", "saveSprint")
    /\ sprints' = [sprints EXCEPT ![q.sprintId].status = "completed"]
    /\ Goto(r, "updateIssues")
    /\ UNCHANGED <<issues, now, resp, projects, zone>>

\* await Issue.updateMany({_id: {$in: sprint.issues}}, [...])
EndUpdateIssues(r) ==
    LET q == reqs[r] IN
    /\ At(r, "endSprint", "updateIssues")
    /\ issues' = EndSprintIssues(issues, q.doc.issues)
    /\ Done(r, setSuccessResponse(CREATED, "Sprint completed and issues updated", None))
    /\ UNCHANGED <<sprints, now, resp, projects, zone>>

\* ---- a write that fails
\* await issue.save() of time-log start rejects (the database is unreachable
\* or refuses the write): the catch answers 500
StartSaveIssueFails(r) ==
    /\ At(r, "timeLogStart", "saveIssue")
    /\ Done(r, Reply(SERVER_ERROR, "Server error"))
    /\ UNCHANGED <<sprints, issues, now, resp, projects, zone>>

\* await Issue.updateMany(...) of end-sprint rejects: the catch answers 500
EndUpdateIssuesFails(r) ==
    /\ At(r, "endSprint", "updateIssues")
    /\ Done(r, Reply(SERVER_ERROR, "Server error"))
    /\ UNCHANGED <<sprints, issues, now, resp, projects, zone>>

\* ---- POST / (issues)
\* a project named by the first project name, no issue yet
InitIssue ==
    /\ sprints = [s \in {} |-> NewSprint]
    /\ issues = [i \in {} |-> NewIssue(None)]
    /\ now = 0
    /\ resp = NoResponse
    /\ reqs = [r \in Slots |-> Idle]
    /\ projects = [p \in {"p1"} |-> CreatedProject(<<"a", "p", "p", "s">>)]
    /\ zone = 0

\* a create-issue request: its inputs, the project name and the issue number
\* the handler has read, and its answer
IssueRequest(pc, projectId, title, assigneeId, reporterId, name, issueNumber, res) ==
    [pc |-> pc, op |-> "createIssue", projectId |-> projectId, title |-> title,
     assigneeId |-> assigneeId, reporterId |-> reporterId, name |-> name,
     issueNumber |-> issueNumber, res |-> res]

\* a create-issue request arrives
BeginCreateIssue(r, projectId, title, assigneeId, reporterId) ==
    /\ reqs[r].pc = "idle"
    /\ reqs' = [reqs EXCEPT ![r] =
          IssueRequest("findDuplicate", projectId, title, assigneeId, reporterId,
                       None, 0, Reply(0, None))]
    /\ UNCHANGED <<sprints, issues, now, resp, projects, zone>>

\* String.prototype.toUpperCase() on one character
ToUpperCase(c) ==
    CASE c = "a" -> "A" [] c = "e" -> "E" [] c = "i" -> "I" [] c = "p" -> "P"
      [] c = "s" -> "S" [] c = "w" -> "W" [] OTHER -> c

\* name.slice(0, 3).toUpperCase()
KeyPrefix(name) ==
    [k \in 1..(IF Len(name) < 3 THEN Len(name) ELSE 3) |-> ToUpperCase(name[k])]

\* `${project.name.slice(0, 3).toUpperCase()}-${issue.issueNumber}`
IssueKey(name, issueNumber) == <<KeyPrefix(name), "-", issueNumber>>

\* new Issue({projectId, title, issueNumber, assigneeId, ...}); issue.key = ...
CreatedIssue(projectId, title, assigneeId, issueNumber, key) ==
    NewIssue(assigneeId) @@ [projectId |-> projectId, title |-> title,
                             issueNumber |-> issueNumber, key |-> key]

\* Issue.find({projectId}).sort({issueNumber: -1}).limit(1) and the number
\* after it, 1 when the project has no issue
NextIssueNumber(projectId) ==
    LET numbers == {issues[i].issueNumber :
                        i \in {j \in DOMAIN issues : issues[j].projectId = projectId}}
    IN  IF numbers = {} THEN 1
        ELSE (CHOOSE n \in numbers : \A m \in numbers : m <= n) + 1

\* the unique index on key holds a document with this key
KeyTaken(key) == \E i \in DOMAIN issues : issues[i].key = key

\* const existingIssue = await Issue.findOne({title, projectId})
CreateFindDuplicate(r) ==
    LET q == reqs[r] IN
    /\ At(r, "createIssue", "findDuplicate")
    /\ IF \E i \in DOMAIN issues :
             issues[i].title = q.title /\ issues[i].projectId = q.projectId
       THEN Done(r, Reply(CONFLICT, "Issue already exists for the same project"))
       ELSE Goto(r, "findProject")
    /\ UNCHANGED <<sprints, issues, now, resp, projects, zone>>

\* const project = await Project.findById(projectId); the check on the two
\* ids; getEmployeeById of the assignee and of the reporter
CreateFindProject(r) ==
    LET q == reqs[r] IN
    /\ At(r, "createIssue", "findProject")
    /\ \E assignee \in BOOLEAN, reporter \in BOOLEAN :
          IF q.projectId \notin DOMAIN projects
          THEN Done(r, Reply(NOT_FOUND, "Project not found"))
          ELSE IF q.assigneeId = q.reporterId
          THEN Done(r, Reply(BAD_REQUEST, "assigneeId and reporterId can't be same"))
          ELSE IF ~assignee THEN Done(r, Reply(NOT_FOUND, "assignee not exists"))
          ELSE IF ~reporter THEN Done(r, Reply(NOT_FOUND, "reporter not found"))
          ELSE reqs' = [reqs EXCEPT ![r].pc = "findLast",
                                    ![r].name = projects[q.projectId].name]
    /\ UNCHANGED <<sprints, issues, now, resp, projects, zone>>

\* const lastIssue = await Issue.find({projectId}).sort(...).limit(1)
CreateFindLast(r) ==
    LET q == reqs[r] IN
    /\ At(r, "createIssue", "findLast")
    /\ reqs' = [reqs EXCEPT ![r].pc = "save",
                            ![r].issueNumber = NextIssueNumber(q.projectId)]
    /\ UNCHANGED <<sprints, issues, now, resp, projects, zone>>

\* the _id the next created issue gets
NextIssueId == CreatedIssueIds[Cardinality(DOMAIN issues) + 1]

\* await issue.save(): a duplicate key error is caught and answered 500
CreateSave(r) ==
    LET q == reqs[r]
        key == IssueKey(q.name, q.issueNumber)
    IN
    /\ At(r, "createIssue", "save")
    /\ IF KeyTaken(key)
       THEN Done(r, Reply(SERVER_ERROR, "Server error")) /\ UNCHANGED issues
       ELSE /\ Cardinality(DOMAIN issues) < Len(CreatedIssueIds)
            /\ issues' = [i \in DOMAIN issues \cup {NextIssueId} |->
                  IF i = NextIssueId
                  THEN CreatedIssue(q.projectId, q.title, q.assigneeId, q.issueNumber, key)
                  ELSE issues[i]]
            /\ Done(r, setSuccessResponse(CREATED, TRUE, "Issue created successfully"))
    /\ UNCHANGED <<sprints, now, resp, projects, zone>>

\* ------------------------------------------------------- specifications
\* sprint lifecycle and the route that writes any Issue.status
Next ==
    \/ \E i \in IssueIds, s \in SprintIds : AddToSprint(i, s)
    \/ \E s \in SprintIds : StartSprint(s)
    \/ \E s \in SprintIds : EndSprint(s)
    \/ \E i \in IssueIds, st \in IssueStatuses : UpdateIssue(i, st)

Spec == Init /\ [][Next]_vars

\* serialized time-log start, time-log stop, add-to-sprint, start-sprint, end-sprint
NextCore ==
    \/ \E i \in IssueIds, s \in SprintIds : AddToSprint(i, s)
    \/ \E s \in SprintIds : StartSprint(s)
    \/ \E s \in SprintIds : EndSprint(s)
    \/ \E s \in SprintIds, i \in IssueIds, a \in AssigneeIds, user \in BOOLEAN :
          TimeLogStart(s, i, a, user)
    \/ \E s \in SprintIds, a \in AssigneeIds : TimeLogStop(s, a)

SpecCore == InitCore /\ [][NextCore]_vars

\* sprint lifecycle with time logs posted directly, running or finished
NextSprint ==
    \/ \E i \in IssueIds, s \in SprintIds : AddToSprint(i, s)
    \/ \E s \in SprintIds : StartSprint(s)
    \/ \E s \in SprintIds : EndSprint(s)
    \/ \E s \in SprintIds, a \in AssigneeIds, i \in IssueIds, ts \in AddTimeSpent,
          st \in AddStartTimes, et \in AddEndTimes : TimeLogAdd(s, a, i, ts, st, et)

SpecSprint == InitSprint /\ [][NextSprint]_vars

\* issues added to a sprint and time logs posted to it, with the two reports
\* asked in between
NextReport ==
    \/ \E i \in IssueIds, s \in SprintIds : AddToSprint(i, s)
    \/ \E s \in SprintIds, a \in AssigneeIds, i \in IssueIds, ts \in AddTimeSpent,
          st \in AddStartTimes, et \in AddEndTimes : TimeLogAdd(s, a, i, ts, st, et)
    \/ \E s \in SprintIds : GetTotalTime(s)
    \/ \E s \in SprintIds : GetAnalytics(s)

SpecReport == InitSprint /\ [][NextReport]_vars

\* serialized create-sprint requests, with projects soft-deleted in between
NextCreate ==
    \/ \E p \in ProjectIds, n \in SprintNames, sd \in DateInputs, ed \in DateInputs :
          CreateSprint(p, n, sd, ed)
    \/ \E p \in ProjectIds : DeleteProject(p)

SpecCreate == InitCreate /\ [][NextCreate]_vars

\* sprint lifecycle with issues soft-deleted in between
NextAdd ==
    \/ \E i \in IssueIds, s \in SprintIds : AddToSprint(i, s)
    \/ \E s \in SprintIds : StartSprint(s)
    \/ \E s \in SprintIds : EndSprint(s)
    \/ \E i \in IssueIds : DeleteIssue(i)

SpecAdd == Init /\ [][NextAdd]_vars

\* serialized time logging on a started and on a planned sprint, with issues
\* soft-deleted in between
NextLog ==
    \/ \E s \in SprintIds, i \in IssueIds, a \in AssigneeIds, user \in BOOLEAN :
          TimeLogStart(s, i, a, user)
    \/ \E s \in SprintIds, a \in AssigneeIds : TimeLogStop(s, a)
    \/ \E i \in IssueIds : DeleteIssue(i)

SpecLog == InitLog /\ [][NextLog]_vars

\* two requests among time-log start, time-log stop and end-sprint, each run
\* step by step, in any interleaving
NextConc ==
    \/ \E r \in Slots, op \in ConcOps, s \in SprintIds, i \in IssueIds, a \in AssigneeIds :
          Begin(r, op, s, i, a)
    \/ \E r \in Slots : StartFindSprint(r)
    \/ \E r \in Slots : StartFindIssue(r)
    \/ \E r \in Slots : StartGetEmployee(r)
    \/ \E r \in Slots : StartSaveSprint(r)
    \/ \E r \in Slots : StartSaveIssue(r)
    \/ \E r \in Slots : StopFindSprint(r)
    \/ \E r \in Slots : StopSaveIssue(r)
    \/ \E r \in Slots : StopSaveSprint(r)
    \/ \E r \in Slots : EndFindSprint(r)
    \/ \E r \in Slots : EndSaveSprint(r)
    \/ \E r \in Slots : EndUpdateIssues(r)

SpecConc == InitConc /\ [][NextConc]_vars

\* two create-issue requests, each run step by step, in any interleaving, with
\* the project renamed in between
NextIssue ==
    \/ \E r \in Slots, p \in ProjectIds, title \in IssueTitles, a \in AssigneeIds,
          rep \in AssigneeIds : BeginCreateIssue(r, p, title, a, rep)
    \/ \E r \in Slots : CreateFindDuplicate(r)
    \/ \E r \in Slots : CreateFindProject(r)
    \/ \E r \in Slots : CreateFindLast(r)
    \/ \E r \in Slots : CreateSave(r)
    \/ \E p \in ProjectIds, n \in ProjectNames : UpdateProject(p, n)

SpecIssue == InitIssue /\ [][NextIssue]_vars

\* serialized project create, update and delete requests
InitProject ==
    /\ sprints = [s \in {} |-> NewSprint]
    /\ issues = [i \in {} |-> NewIssue(None)]
    /\ now = 0
    /\ resp = NoResponse
    /\ reqs = [r \in Slots |-> Idle]
    /\ projects = [p \in {} |-> CreatedProject(<<>>)]
    /\ zone = 0

NextProject ==
    \/ \E n \in ProjectNames, owner \in BOOLEAN : CreateProject(n, owner)
    \/ \E p \in ProjectIds, n \in ProjectNames : UpdateProject(p, n)
    \/ \E p \in ProjectIds : DeleteProject(p)

SpecProject == InitProject /\ [][NextProject]_vars

\* time-log start requests run step by step on a sprint without time logs.
\* The server and the database take every step that is ready.  The step after
\* getEmployeeById is ready when axios.get settles, with the directory's answer
\* or with an error; the call sets no timeout, so nothing makes it settle.
InitLookup == InitConc /\ sprints["s1"].timeLogs = <<>>

NextLookup ==
    \/ \E r \in Slots, s \in SprintIds, i \in IssueIds, a \in AssigneeIds :
          Begin(r, "timeLogStart", s, i, a)
    \/ \E r \in Slots : StartFindSprint(r)
    \/ \E r \in Slots : StartFindIssue(r)
    \/ \E r \in Slots : StartGetEmployee(r)
    \/ \E r \in Slots : StartSaveSprint(r)
    \/ \E r \in Slots : StartSaveIssue(r)

SpecLookup ==
    /\ InitLookup /\ [][NextLookup]_vars
    /\ \A r \in Slots :
          /\ WF_vars(StartFindSprint(r))
          /\ WF_vars(StartFindIssue(r))
          /\ WF_vars(StartSaveSprint(r))
          /\ WF_vars(StartSaveIssue(r))

\* serialized time logging on the started sprint s1, with issues added to
\* sprints, the other sprint started and issue statuses set directly in
\* between; each issue is assigned to another employee
InitStatus == InitLog /\ issues["i2"].assigneeId = "a2"

NextStatus ==
    \/ \E s \in {"s1", "s0"}, i \in IssueIds, a \in AssigneeIds, user \in BOOLEAN :
          TimeLogStart(s, i, a, user)
    \/ \E s \in {"s1", "s0"}, a \in AssigneeIds : TimeLogStop(s, a)
    \/ \E i \in IssueIds, s \in SprintIds : AddToSprint(i, s)
    \/ \E s \in SprintIds : StartSprint(s)
    \/ \E i \in IssueIds, st \in IssueStatuses : UpdateIssueStatus(i, st)

SpecStatus == InitStatus /\ [][NextStatus]_vars

\* time-log start and end-sprint requests run step by step, the second write
\* of each succeeding or failing
NextFail ==
    \/ \E r \in Slots, op \in {"timeLogStart", "endSprint"}, s \in SprintIds,
          i \in IssueIds, a \in AssigneeIds : Begin(r, op, s, i, a)
    \/ \E r \in Slots : StartFindSprint(r)
    \/ \E r \in Slots : StartFindIssue(r)
    \/ \E r \in Slots : StartGetEmployee(r)
    \/ \E r \in Slots : StartSaveSprint(r)
    \/ \E r \in Slots : StartSaveIssue(r)
    \/ \E r \in Slots : StartSaveIssueFails(r)
    \/ \E r \in Slots : EndFindSprint(r)
    \/ \E r \in Slots : EndSaveSprint(r)
    \/ \E r \in Slots : EndUpdateIssues(r)
    \/ \E r \in Slots : EndUpdateIssuesFails(r)

SpecFail == InitLookup /\ [][NextFail]_vars

\* serialized time-log start, time-log stop, direct time-log add and end-sprint
\* requests on the started sprint s1; the direct adds are a1's logs on i1
NextAppend ==
    \/ \E s \in {"s1", "s0"}, i \in IssueIds, a \in AssigneeIds, user \in BOOLEAN :
          TimeLogStart(s, i, a, user)
    \/ \E s \in {"s1", "s0"}, a \in AssigneeIds : TimeLogStop(s, a)
    \/ \E s \in {"s1", "s0"}, i \in {"i1", "i0"}, ts \in AddTimeSpent,
          st \in AddStartTimes, et \in AddEndTimes : TimeLogAdd(s, "a1", i, ts, st, et)
    \/ \E s \in {"s1", "s0"} : EndSprint(s)

SpecAppend == InitStatus /\ [][NextAppend]_vars

\* ================================================================ claims
\* the time logs of sprint s that have no endTime and belong to assignee a
RunningLogs(s, a) ==
    {k \in 1..Len(sprints[s].timeLogs) :
        /\ sprints[s].timeLogs[k].assigneeId = a
        /\ sprints[s].timeLogs[k].endTime = NoTime}

\* some time log of sprint s has no endTime
HasRunningLog(s) ==
    \E k \in 1..Len(sprints[s].timeLogs) : sprints[s].timeLogs[k].endTime = NoTime

\* every sprint holds, for each assignee, at most one time log with no endTime
OneRunningLogPerAssignee ==
    \A s \in DOMAIN sprints, a \in AssigneeIds : Cardinality(RunningLogs(s, a)) <= 1

\* the request changed neither collection
DatabaseUnchanged == sprints' = sprints /\ issues' = issues

\* C1 (as stated): after serialized time-log start, time-log stop,
\* add-to-sprint, start-sprint and end-sprint requests every sprint holds at
\* most one running log per assignee, and a time-log start for an assignee who
\* already has a running log in the sprint is answered with 400.
C1_RejectedWith400 ==
    [][/\ OneRunningLogPerAssignee'
       /\ \A s \in DOMAIN sprints, i \in IssueIds, a \in AssigneeIds, user \in BOOLEAN :
            (RunningLogs(s, a) # {} /\ TimeLogStart(s, i, a, user))
                => resp'.code = BAD_REQUEST]_vars

\* C1 (amended): the invariant holds, and such a start is always rejected and
\* changes nothing; it is answered with 400 when the issue exists, is not
\* deleted and the assignee resolves in the directory, and with the 404 of the
\* earlier check otherwise.
C1_OneRunningLogPerAssignee ==
    [][/\ OneRunningLogPerAssignee'
       /\ \A s \in DOMAIN sprints, i \in IssueIds, a \in AssigneeIds, user \in BOOLEAN :
            (RunningLogs(s, a) # {} /\ TimeLogStart(s, i, a, user))
                => /\ DatabaseUnchanged
                   /\ resp'.code \in {BAD_REQUEST, NOT_FOUND}
                   /\ resp'.code = BAD_REQUEST
                        <=> (i \in DOMAIN issues /\ ~issues[i].isDeleted /\ user)]_vars

\* C1 witness: an assignee with a running log was refused a second one
C1_Witness ==
    /\ resp.op = "timeLogStart"
    /\ resp.code = BAD_REQUEST
    /\ resp.message = "User already has an active time log on another issue"
    /\ \E s \in DOMAIN sprints, a \in AssigneeIds : RunningLogs(s, a) # {}

\* a slot whose request was answered
Answered(r, op) == reqs[r].pc = "done" /\ reqs[r].op = op

\* C2: of two interleaved time-log starts for one assignee and one sprint at
\* most one succeeds, and the sprint never holds two running logs of the
\* assignee.
C2_ConcurrentStarts ==
    /\ OneRunningLogPerAssignee
    /\ \A r1 \in Slots, r2 \in Slots :
          (/\ r1 # r2
           /\ Answered(r1, "timeLogStart") /\ Answered(r2, "timeLogStart")
           /\ reqs[r1].sprintId = reqs[r2].sprintId
           /\ reqs[r1].assigneeId = reqs[r2].assigneeId)
             => ~(reqs[r1].res.code = OK /\ reqs[r2].res.code = OK)

\* C3: no sprint is completed while it holds a time log without endTime; of
\* an interleaved time-log start and end-sprint on one sprint one is rejected.
C3_StartRacingEnd ==
    /\ \A s \in DOMAIN sprints : sprints[s].status = "completed" => ~HasRunningLog(s)
    /\ \A r1 \in Slots, r2 \in Slots :
          (/\ Answered(r1, "timeLogStart") /\ Answered(r2, "endSprint")
           /\ reqs[r1].sprintId = reqs[r2].sprintId)
             => ~(reqs[r1].res.code = OK /\ reqs[r2].res.code = CREATED)

\* C4: of two interleaved time-log stops for one sprint and assignee exactly
\* one stops the running log: one amount is added to the issue's total, and
\* the endTime and timeSpent stored on the log are those of that request.
\* (A request has added its amount once it has found the running log, k # 0,
\* and has been answered.)
C4_ConcurrentStops ==
    \A r1 \in Slots, r2 \in Slots :
        (/\ r1 # r2
         /\ Answered(r1, "timeLogStop") /\ Answered(r2, "timeLogStop")
         /\ reqs[r1].sprintId = reqs[r2].sprintId
         /\ reqs[r1].assigneeId = reqs[r2].assigneeId
         /\ reqs[r1].k # 0)
           => /\ reqs[r2].k = 0
              /\ sprints[reqs[r1].sprintId].timeLogs[reqs[r1].k].endTime
                    = reqs[r1].log.endTime
              /\ sprints[reqs[r1].sprintId].timeLogs[reqs[r1].k].timeSpent
                    = reqs[r1].log.timeSpent

\* C5: end-sprint answers 404 for a missing sprint, 400 for a completed one and
\* 400 for one with a time log without endTime (planned or active), and on each
\* of these failures no sprint and no issue changes.
C5_EndSprintFailures ==
    [][\A s \in SprintIds :
         EndSprint(s) =>
            /\ s \notin DOMAIN sprints => (resp'.code = NOT_FOUND /\ DatabaseUnchanged)
            /\ (s \in DOMAIN sprints /\ sprints[s].status = "completed")
                  => (resp'.code = BAD_REQUEST /\ DatabaseUnchanged)
            /\ (s \in DOMAIN sprints /\ HasRunningLog(s))
                  => (resp'.code = BAD_REQUEST /\ DatabaseUnchanged)]_vars

\* C5 witness: end-sprint was refused on a planned sprint holding a running
\* log that is followed by a finished one
C5_Witness ==
    /\ resp.op = "endSprint"
    /\ resp.code = BAD_REQUEST
    /\ resp.message = "Cannot end sprint as there are unfinished time logs"
    /\ sprints["s1"].status = "planned"
    /\ Len(sprints["s1"].timeLogs) = 2
    /\ sprints["s1"].timeLogs[1].endTime = NoTime
    /\ sprints["s1"].timeLogs[2].endTime # NoTime

\* the status end-sprint must leave an issue of the sprint in
C6_Rule(status) ==
    CASE status = "in_progress" -> "done"
      [] status = "to_do" -> "backlog"
      [] OTHER -> "done"

\* C6: a successful end-sprint completes the sprint and rewrites the status of
\* exactly the issues of sprint.issues: in_progress -> done, to_do -> backlog,
\* any other -> done; afterwards none of them is to_do or in_progress.
C6_EndSprintRewrite ==
    [][\A s \in DOMAIN sprints :
         (EndSprint(s) /\ resp'.code = CREATED) =>
            /\ sprints'[s].status = "completed"
            /\ \A i \in DOMAIN issues :
                 issues'[i].status =
                    IF \E k \in 1..Len(sprints[s].issues) : sprints[s].issues[k] = i
                    THEN C6_Rule(issues[i].status)
                    ELSE issues[i].status
            /\ \A k \in 1..Len(sprints[s].issues) :
                 issues'[sprints[s].issues[k]].status \notin {"to_do", "in_progress"}]_vars

\* C6 witness: s1 alone was just completed; its issue i1 ended in backlog and
\* i2, outside the sprint, is still in_review
C6_Witness ==
    /\ resp.op = "endSprint"
    /\ resp.code = CREATED
    /\ sprints["s1"].status = "completed"
    /\ sprints["s2"].status # "completed"
    /\ sprints["s1"].issues = <<"i1">>
    /\ issues["i1"].status = "backlog"
    /\ issues["i2"].status = "in_review"

\* C7: a sprint's status only moves planned -> active (by start-sprint) or
\* planned/active -> completed (by end-sprint); no sprint disappears.
C7_StatusForward ==
    [][\A s \in DOMAIN sprints :
         /\ s \in DOMAIN sprints'
         /\ sprints'[s].status # sprints[s].status =>
               \/ /\ sprints[s].status = "planned"
                  /\ sprints'[s].status = "active"
                  /\ StartSprint(s)
               \/ /\ sprints[s].status \in {"planned", "active"}
                  /\ sprints'[s].status = "completed"
                  /\ EndSprint(s)]_vars

\* C7 witness: a sprint that was started, used for time logging and ended
C7_Witness ==
    /\ resp.op = "endSprint"
    /\ resp.code = CREATED
    /\ sprints["s1"].status = "completed"
    /\ Len(sprints["s1"].timeLogs) > 0

\* C8: no issue is listed in two different sprints that are both active.
C8_OneActiveSprintPerIssue ==
    \A s \in DOMAIN sprints, o \in DOMAIN sprints :
        (s # o /\ sprints[s].status = "active" /\ sprints[o].status = "active")
            => \A k \in 1..Len(sprints[s].issues), j \in 1..Len(sprints[o].issues) :
                  sprints[s].issues[k] # sprints[o].issues[j]

\* C9: a successful start-sprint makes the sprint active, sets every issue of
\* sprint.issues to to_do whatever it was, and changes no other issue's status.
C9_StartSprintReset ==
    [][\A s \in DOMAIN sprints :
         (StartSprint(s) /\ resp'.code = CREATED) =>
            /\ sprints'[s].status = "active"
            /\ \A i \in DOMAIN issues :
                 issues'[i].status =
                    IF \E k \in 1..Len(sprints[s].issues) : sprints[s].issues[k] = i
                    THEN "to_do"
                    ELSE issues[i].status]_vars

\* C9 witness: s1 alone was just started with i1, now to_do; i2, outside the
\* sprint, is still done
C9_Witness ==
    /\ resp.op = "startSprint"
    /\ resp.code = CREATED
    /\ sprints["s1"].status = "active"
    /\ sprints["s2"].status = "planned"
    /\ sprints["s1"].issues = <<"i1">>
    /\ sprints["s2"].issues = <<>>
    /\ issues["i1"].status = "to_do"
    /\ issues["i2"].status = "done"

\* C10: start-sprint on a missing, active or completed sprint answers 404 and
\* changes no sprint and no issue.
C10_StartSprintRefused ==
    [][\A s \in SprintIds :
         (StartSprint(s) /\ (s \notin DOMAIN sprints
                              \/ sprints[s].status \in {"active", "completed"}))
            => (resp'.code = NOT_FOUND /\ DatabaseUnchanged)]_vars

\* C10 witness: start-sprint was refused while one sprint is active and the
\* other completed, both with issues
C10_Witness ==
    /\ resp.op = "startSprint"
    /\ resp.code = NOT_FOUND
    /\ sprints["s1"].status = "active"
    /\ sprints["s2"].status = "completed"
    /\ sprints["s1"].issues # <<>>
    /\ sprints["s2"].issues # <<>>

\* the preconditions of time-log start in the order the claim gives them, each
\* with whether it holds for the request and the answer when it is the first
\* that does not
C11_Checks(s, i, a, user) ==
    << [holds |-> s \in DOMAIN sprints,
        code |-> NOT_FOUND, message |-> "Sprint not found"],
       [holds |-> s \in DOMAIN sprints /\ sprints[s].status = "active",
        code |-> BAD_REQUEST, message |-> "Sprint is not active"],
       [holds |-> i \in DOMAIN issues /\ ~issues[i].isDeleted,
        code |-> NOT_FOUND, message |-> "Issue not exists"],
       [holds |-> user,
        code |-> NOT_FOUND, message |-> "assignee not exists in attendance-db"],
       [holds |-> i \in DOMAIN issues /\ issues[i].assigneeId = a,
        code |-> BAD_REQUEST,
        message |-> "Assignee ID does not match the assigned user for this issue"],
       [holds |-> s \in DOMAIN sprints /\ RunningLogs(s, a) = {},
        code |-> BAD_REQUEST,
        message |-> "User already has an active time log on another issue"] >>

\* the first of the checks that does not hold, 0 when all hold
C11_FirstFailing(checks) ==
    LET failing == {k \in DOMAIN checks : ~checks[k].holds}
    IN  IF failing = {} THEN 0 ELSE CHOOSE k \in failing : \A j \in failing : k <= j

\* C11: time-log start checks sprint exists (404), sprint active (400), issue
\* exists and not deleted (404), assignee resolves (404), assignee is the
\* issue's (400), assignee has no running log in the sprint (400), in this
\* order: in every state every request is answered with the first check it
\* fails (and succeeds when it meets all six), and a time-log start that is
\* refused changes neither sprint.timeLogs nor any issue's status.
C11_StartPreconditions ==
    /\ [](\A s \in SprintIds, i \in IssueIds, a \in AssigneeIds, user \in BOOLEAN :
            LET checks == C11_Checks(s, i, a, user)
                first == C11_FirstFailing(checks)
                r == TimeLogStartResult(s, i, a, user)
            IN  IF first = 0 THEN r.code = OK
                ELSE r.code = checks[first].code /\ r.message = checks[first].message)
    /\ [][(resp'.op = "timeLogStart" /\ resp'.code # OK) => DatabaseUnchanged]_vars

\* C11 witness: a start was refused for the assignee mismatch although the
\* assignee also has a running log in the sprint, and an issue is deleted
C11_Witness ==
    /\ resp.op = "timeLogStart"
    /\ resp.code = BAD_REQUEST
    /\ resp.message = "Assignee ID does not match the assigned user for this issue"
    /\ RunningLogs("s1", "a1") # {}
    /\ issues["i2"].assigneeId = "a2"
    /\ issues["i1"].isDeleted

\* C12: a successful time-log stop sets the endTime of the assignee's running
\* log to the current time and its timeSpent to endTime - startTime (>= 0), and
\* the stored totalTimeSpent of the log's issue is its previous value plus
\* that amount.
C12_StopAddsToIssueTotal ==
    [][\A s \in DOMAIN sprints, a \in AssigneeIds :
         (TimeLogStop(s, a) /\ resp'.code = CREATED) =>
            \E k \in RunningLogs(s, a) :
               LET log == sprints[s].timeLogs[k]
                   stopped == sprints'[s].timeLogs[k]
               IN  /\ stopped.endTime = now'
                   /\ stopped.timeSpent = stopped.endTime - log.startTime
                   /\ stopped.timeSpent >= 0
                   /\ TotalTimeSpent(issues'[log.issueId])
                         = TotalTimeSpent(issues[log.issueId]) + stopped.timeSpent]_vars

\* C13: every time log of every sprint has timeSpent = 0 while its endTime is
\* unset and timeSpent = endTime - startTime once it is set, whichever route
\* (time-log start, time-log stop, the direct add) wrote it.
C13_TimeSpentOfEveryLog ==
    \A s \in DOMAIN sprints :
        \A k \in 1..Len(sprints[s].timeLogs) :
            LET log == sprints[s].timeLogs[k] IN
            IF log.endTime = NoTime
            THEN log.timeSpent = 0
            ELSE log.timeSpent = log.endTime - log.startTime

\* issue i is listed in sprint s
Listed(s, i) == \E k \in 1..Len(sprints[s].issues) : sprints[s].issues[k] = i

\* no sprint lists an issue twice
NoIssueListedTwice ==
    \A s \in DOMAIN sprints :
        \A k \in 1..Len(sprints[s].issues), j \in 1..Len(sprints[s].issues) :
            k # j => sprints[s].issues[k] # sprints[s].issues[j]

\* C14 (as stated): an add-to-sprint request for an issue already listed in
\* that sprint is answered 409 and changes neither collection; no sprint ever
\* lists an issue twice.
C14_DuplicateAdd409 ==
    [][/\ NoIssueListedTwice'
       /\ \A s \in DOMAIN sprints, i \in IssueIds :
            (Listed(s, i) /\ AddToSprint(i, s))
               => (resp'.code = CONFLICT /\ DatabaseUnchanged)]_vars

\* C14 (amended): such a request is always refused and changes nothing; it is
\* answered 409 when the issue is not deleted and with the 404 of the earlier
\* check when it has been soft-deleted since it was added; no sprint ever
\* lists an issue twice.
C14_DuplicateAddRefused ==
    [][/\ NoIssueListedTwice'
       /\ \A s \in DOMAIN sprints, i \in IssueIds :
            (Listed(s, i) /\ AddToSprint(i, s))
               => /\ DatabaseUnchanged
                  /\ resp'.code = IF issues[i].isDeleted THEN NOT_FOUND ELSE CONFLICT]_vars

\* C14 witness: a second add of i1 to s1 was refused with 409 while s1 lists
\* both issues
C14_Witness ==
    /\ resp.op = "addToSprint"
    /\ resp.code = CONFLICT
    /\ resp.message = "This Issue already added to this sprint"
    /\ Listed("s1", "i1")
    /\ Listed("s1", "i2")
    /\ ~issues["i1"].isDeleted

\* C15: after a successful add-to-sprint the issue's sprintId references the
\* sprint it was added to, and an issue that no sprint lists has no sprintId.
C15_SprintIdSetOnAdd ==
    /\ [](\A i \in DOMAIN issues :
            (\A s \in DOMAIN sprints : ~Listed(s, i)) => issues[i].sprintId = None)
    /\ [][\A s \in DOMAIN sprints, i \in DOMAIN issues :
            (AddToSprint(i, s) /\ resp'.code = CREATED) => issues'[i].sprintId = s]_vars

\* the sum of endTime - startTime over the logs at the positions ks
RECURSIVE C16_SumOver(_, _)
C16_SumOver(timeLogs, ks) ==
    IF ks = {} THEN 0
    ELSE LET k == CHOOSE j \in ks : TRUE
         IN  (timeLogs[k].endTime - timeLogs[k].startTime)
                + C16_SumOver(timeLogs, ks \ {k})

\* the total of a sprint's logs: those without endTime contribute 0
C16_Total(timeLogs) ==
    C16_SumOver(timeLogs, {k \in 1..Len(timeLogs) : timeLogs[k].endTime # NoTime})

\* C16: for a sprint with at least one time log total-time answers 200 with
\* totalTimeMs = the sum of endTime - startTime over the logs that have both
\* timestamps; the request changes no state, and asked again with no mutation
\* in between it gives the same answer.
C16_TotalTime ==
    [][\A s \in SprintIds :
         GetTotalTime(s) =>
            /\ DatabaseUnchanged
            /\ (s \in DOMAIN sprints /\ Len(sprints[s].timeLogs) > 0) =>
                  /\ resp'.code = OK
                  /\ resp'.data.totalTimeMs = C16_Total(sprints[s].timeLogs)
                  /\ (resp.op = "totalTime" /\ resp.code = OK) => resp' = resp]_vars

\* C16 witness: total-time answered 1 for a sprint holding a finished log of
\* one tick and a running log
C16_Witness ==
    /\ resp.op = "totalTime"
    /\ resp.code = OK
    /\ resp.data.totalTimeMs = 1
    /\ Len(sprints["s1"].timeLogs) = 2
    /\ \E k \in 1..2 : sprints["s1"].timeLogs[k].endTime = NoTime

\* C17: whenever both reports answer 200 for a sprint, the total of per-sprint
\* analytics (totalTimeSpentMs) equals the total of total-time (totalTimeMs),
\* also when the sprint holds logs of issues it does not list.
C17_AnalyticsEqualsTotalTime ==
    \A s \in DOMAIN sprints :
        (TotalTimeResult(s).code = OK /\ AnalyticsResult(s).code = OK)
            => AnalyticsTimeMs(sprints[s].issues, sprints[s].timeLogs)
                  = TotalTimeMs(sprints[s].timeLogs)

\* the instant a date text of a request names: a text without offset is read
\* in the server's zone
InstantOf(d) == IF d.form = "utc" THEN d.wall ELSE d.wall - zone

\* the request's startDate is after its endDate
StartAfterEnd(sd, ed) == InstantOf(sd) > InstantOf(ed)

\* some sprint of project p is named n
NameUsedIn(p, n) ==
    \E s \in DOMAIN sprints : sprints[s].projectId = p /\ sprints[s].name = n

\* no two sprints of one project share a name
NoSharedSprintName ==
    \A s \in DOMAIN sprints, o \in DOMAIN sprints :
        (s # o /\ sprints[s].projectId = sprints[o].projectId)
            => sprints[s].name # sprints[o].name

\* a create-sprint request that is not answered 201 creates nothing
RefusedCreateKeepsSprints ==
    (resp'.op = "createSprint" /\ resp'.code # CREATED) => sprints' = sprints

\* C18 (as stated): a create-sprint request whose name is used by a sprint of
\* the same project is answered 409 "Sprint name already exists in this
\* project" and creates nothing; no two sprints of one project share a name.
C18_DuplicateName409 ==
    /\ [](NoSharedSprintName)
    /\ [](\A p \in ProjectIds, n \in SprintNames, sd \in DateInputs, ed \in DateInputs :
            NameUsedIn(p, n) =>
               LET r == CreateSprintResult(p, n, sd, ed) IN
               /\ r.code = CONFLICT
               /\ r.message = "Sprint name already exists in this project")
    /\ [][RefusedCreateKeepsSprints]_vars

\* C18 (amended): such a request creates nothing; it is answered 409 with that
\* message when its startDate is not after its endDate, and with the 400 of
\* the date validation otherwise; no two sprints of one project share a name.
C18_DuplicateNameRefused ==
    /\ [](NoSharedSprintName)
    /\ [](\A p \in ProjectIds, n \in SprintNames, sd \in DateInputs, ed \in DateInputs :
            NameUsedIn(p, n) =>
               LET r == CreateSprintResult(p, n, sd, ed) IN
               IF StartAfterEnd(sd, ed) THEN r.code = BAD_REQUEST
               ELSE /\ r.code = CONFLICT
                    /\ r.message = "Sprint name already exists in this project")
    /\ [][RefusedCreateKeepsSprints]_vars

\* C18 witness: with two sprints stored, a create-sprint was refused for a
\* name of the same project
C18_Witness ==
    /\ resp.op = "createSprint"
    /\ resp.code = CONFLICT
    /\ resp.message = "Sprint name already exists in this project"
    /\ Cardinality(DOMAIN sprints) = 2

\* C19: a create-sprint request with startDate not after endDate and an
\* existing, non-deleted project succeeds with 201 when its name is used only
\* by sprints of other projects.
C19_NameScopedToProject ==
    \A p \in ProjectIds, n \in SprintNames, sd \in DateInputs, ed \in DateInputs :
        (/\ ~StartAfterEnd(sd, ed)
         /\ p \in DOMAIN projects /\ ~projects[p].isDeleted
         /\ ~NameUsedIn(p, n)
         /\ \E o \in ProjectIds \ {p} : NameUsedIn(o, n))
            => CreateSprintResult(p, n, sd, ed).code = CREATED

\* C20: a create-sprint request whose startDate is after its endDate is
\* answered 400, every stored sprint has startDate <= endDate, and a request
\* with startDate equal to endDate (a live project, an unused name) is
\* accepted.
C20_StartNotAfterEnd ==
    /\ \A p \in ProjectIds, n \in SprintNames, sd \in DateInputs, ed \in DateInputs :
          StartAfterEnd(sd, ed) => CreateSprintResult(p, n, sd, ed).code = BAD_REQUEST
    /\ \A s \in DOMAIN sprints : sprints[s].startDate <= sprints[s].endDate
    /\ \A p \in ProjectIds, n \in SprintNames, sd \in DateInputs :
          (/\ p \in DOMAIN projects /\ ~projects[p].isDeleted
           /\ \A o \in ProjectIds : ~NameUsedIn(o, n))
             => CreateSprintResult(p, n, sd, sd).code = CREATED

\* C21: within one project no two issues carry the same issueNumber, also when
\* create-issue requests for the project interleave
C21_UniqueIssueNumbers ==
    \A i \in DOMAIN issues, j \in DOMAIN issues :
        (i # j /\ issues[i].projectId = issues[j].projectId)
            => issues[i].issueNumber # issues[j].issueNumber

\* C22: no two projects that are not deleted have the same name, after any
\* sequence of project create, update and delete requests
C22_LiveProjectNamesUnique ==
    \A p \in DOMAIN projects, q \in DOMAIN projects :
        (p # q /\ ~projects[p].isDeleted /\ ~projects[q].isDeleted)
            => projects[p].name # projects[q].name

\* C23: delete of a missing project answers 404, of a deleted project an error,
\* of a live project success; a successful delete sets isDeleted of one live
\* project and nothing else, a refused delete changes no project, and no
\* request removes a project or sets isDeleted back to false
C23_SoftDeleteOnce ==
    /\ [](\A id \in ProjectIds :
            LET r == DeleteProjectResult(id) IN
            IF id \notin DOMAIN projects THEN r.code = NOT_FOUND
            ELSE IF projects[id].isDeleted THEN r.code >= BAD_REQUEST
            ELSE r.code = CREATED)
    /\ [][/\ (resp'.op = "deleteProject" /\ resp'.code = CREATED) =>
                \E id \in DOMAIN projects :
                    /\ ~projects[id].isDeleted
                    /\ projects' = [projects EXCEPT ![id].isDeleted = TRUE]
          /\ (resp'.op = "deleteProject" /\ resp'.code # CREATED) => UNCHANGED projects
          /\ \A p \in DOMAIN projects :
                /\ p \in DOMAIN projects'
                /\ projects[p].isDeleted => projects'[p].isDeleted]_vars

\* the delete of a deleted project has been refused, next to a live project
C23_Witness ==
    /\ resp.op = "deleteProject" /\ resp.code = SERVER_ERROR
    /\ \E p \in DOMAIN projects : projects[p].isDeleted
    /\ \E p \in DOMAIN projects : ~projects[p].isDeleted

\* C24: every time-log start request eventually completes with a response
C24_StartCompletes ==
    \A r \in Slots : (reqs[r].op = "timeLogStart") ~> (reqs[r].pc = "done")

\* C25: with the direct time-log add among the requests, no sprint holds two
\* logs without endTime for one assignee and no completed sprint holds a log
\* without endTime
C25_DirectAddKeepsInvariant ==
    /\ OneRunningLogPerAssignee
    /\ \A s \in DOMAIN sprints :
          sprints[s].status = "completed" => ~IncompleteTimeLogs(sprints[s].timeLogs)

\* C26: whenever a sprint holds a time log without endTime for an issue, that
\* issue's status is in_progress
C26_RunningLogMeansInProgress ==
    \A s \in DOMAIN sprints :
        \A k \in 1..Len(sprints[s].timeLogs) :
            LET log == sprints[s].timeLogs[k] IN
            (NoEndTime(log) /\ log.issueId \in DOMAIN issues)
                => issues[log.issueId].status = "in_progress"

\* C27: every time log created by time-log start references an issue that is
\* listed in the issues of the sprint holding the log
C27_LoggedIssueIsListed ==
    \A s \in DOMAIN sprints :
        \A k \in 1..Len(sprints[s].timeLogs) : Listed(s, sprints[s].timeLogs[k].issueId)

\* C28: once a sprint is completed its issues list and its timeLogs never
\* change again
C28_CompletedSprintFrozen ==
    [][\A s \in DOMAIN sprints :
          sprints[s].status = "completed" =>
              /\ sprints'[s].issues = sprints[s].issues
              /\ sprints'[s].timeLogs = sprints[s].timeLogs]_vars

\* C29: when time-log start or end-sprint answers with a server error because
\* its second write failed, its first write is not left in place: the sprint
\* does not hold the log of the failed start, and the sprint of the failed end
\* is not completed
C29_AllOrNothing ==
    \A r \in Slots :
        (reqs[r].pc = "done" /\ reqs[r].res.code = SERVER_ERROR) =>
            /\ reqs[r].op = "timeLogStart" =>
                  reqs[r].log \notin Range(sprints[reqs[r].sprintId].timeLogs)
            /\ reqs[r].op = "endSprint" =>
                  sprints[reqs[r].sprintId].status # "completed"

\* log k of the list is the first log of its assignee without endTime
FirstRunningOfAssignee(timeLogs, k) ==
    /\ timeLogs[k].endTime = NoTime
    /\ \A j \in 1..(k - 1) :
          ~(timeLogs[j].assigneeId = timeLogs[k].assigneeId /\ timeLogs[j].endTime = NoTime)

\* the positions of sprint s whose log the step changed
ChangedLogs(s) ==
    {k \in 1..Len(sprints[s].timeLogs) : sprints'[s].timeLogs[k] # sprints[s].timeLogs[k]}

\* C30: in serialized requests no step removes a time log or changes a log's
\* assigneeId, issueId or startTime; a log that has an endTime never changes
\* again; a time-log stop changes one log, the first log of its assignee
\* without endTime, and adds none
C30_LogsAppendOnly ==
    [][/\ \A s \in DOMAIN sprints :
             LET old == sprints[s].timeLogs
                 new == sprints'[s].timeLogs
             IN  /\ s \in DOMAIN sprints'
                 /\ Len(new) >= Len(old)
                 /\ \A k \in 1..Len(old) :
                       /\ new[k].assigneeId = old[k].assigneeId
                       /\ new[k].issueId = old[k].issueId
                       /\ new[k].startTime = old[k].startTime
                       /\ old[k].endTime # NoTime => new[k] = old[k]
       /\ (resp'.op = "timeLogStop" /\ resp'.code = CREATED) =>
             \E s \in DOMAIN sprints :
                /\ \A o \in DOMAIN sprints \ {s} : sprints'[o] = sprints[o]
                /\ Len(sprints'[s].timeLogs) = Len(sprints[s].timeLogs)
                /\ \E k \in 1..Len(sprints[s].timeLogs) :
                      /\ ChangedLogs(s) = {k}
                      /\ FirstRunningOfAssignee(sprints[s].timeLogs, k)
                      /\ sprints'[s].timeLogs[k].endTime # NoTime
       /\ (resp'.op = "timeLogStop" /\ resp'.code # CREATED) => sprints' = sprints]_vars

\* a stop has ended the first of an assignee's two logs without endTime, and
\* the second is still running
C30_Witness ==
    /\ resp.op = "timeLogStop" /\ resp.code = CREATED
    /\ \E s \in DOMAIN sprints :
          /\ Len(sprints[s].timeLogs) >= 2
          /\ sprints[s].timeLogs[1].assigneeId = sprints[s].timeLogs[2].assigneeId
          /\ sprints[s].timeLogs[1].endTime # NoTime
          /\ sprints[s].timeLogs[2].endTime = NoTime

====
